---- MODULE Spec2Model ----
(***************************************************************************)
(* BlockVisitPlots (app/plot/block_visits.py): an object that fetches the  *)
(* block-visit dataframe once at construction and offers four view methods *)
(* which hand values derived from it to a plotting primitive.              *)
(*                                                                         *)
(* Dates are day numbers (days since 1970-01-01, proleptic Gregorian), so  *)
(* that date +/- timedelta(days=n) is integer addition, and the calendar   *)
(* fields of a date are recovered by YearOf / MonthOf / DayOf.             *)
(***************************************************************************)
EXTENDS Integers, Sequences, FiniteSets, TLC

\* ------------------------------------------------------------------ bounds

\* First date handed to the constructor: 2016-01-01 as a day number.
FirstDate == 16801
\* Number of consecutive dates explored by SpecRange (2016, a leap year, and 2017).
NumDates == 731
\* Number of consecutive dates explored by Spec.
NumMainDates == 1
\* The table's BlockCount values repeat with this period (in days).
TablePeriod == 5
\* Largest BlockCount of a single day in the table.
MaxCount == 13
\* Largest `days` argument of daily_plot.
MaxDays == 7
\* Largest `months` argument of monthly_plot.
MaxMonths == 13
\* The call counter saturates at this number of view-method calls.
MaxCalls == 2

\* ------------------------------------------------------- program constants

\* timedelta(days=300) before self.date
QueryDaysBefore == 300
\* timedelta(days=150) after self.date
QueryDaysAfter == 150

\* ---------------------------------------------------------- datetime.date

\* The calendar fields of day number d (datetime.date's year, month, day).
Civil(d) ==
    LET z == d + 719468
        era == z \div 146097
        doe == z - era * 146097
        yoe == (doe - doe \div 1460 + doe \div 36524 - doe \div 146096) \div 365
        doy == doe - (365 * yoe + yoe \div 4 - yoe \div 100)
        mp == (5 * doy + 2) \div 153
        m == IF mp < 10 THEN mp + 3 ELSE mp - 9
    IN  [year |-> yoe + era * 400 + (IF m <= 2 THEN 1 ELSE 0),
         month |-> m,
         day |-> doy - (153 * mp + 2) \div 5 + 1]

\* The day number of datetime.date(y, m, dd).
DateOf(y, m, dd) ==
    LET yy == IF m <= 2 THEN y - 1 ELSE y
        era == yy \div 400
        yoe == yy - era * 400
        mp == IF m > 2 THEN m - 3 ELSE m + 9
        doy == (153 * mp + 2) \div 5 + dd - 1
        doe == yoe * 365 + yoe \div 4 - yoe \div 100 + doy
    IN  era * 146097 + doe - 719468

\* ------------------------------------------------------------------- str()

Digit(n) ==
    CASE n = 0 -> "0" [] n = 1 -> "1" [] n = 2 -> "2" [] n = 3 -> "3"
      [] n = 4 -> "4" [] n = 5 -> "5" [] n = 6 -> "6" [] n = 7 -> "7"
      [] n = 8 -> "8" [] n = 9 -> "9"

RECURSIVE str(_)
\* str(n) of a non-negative integer: its decimal digits, most significant
\* first, as a sequence of one-character strings.
str(n) == IF n < 10 THEN <<Digit(n)>> ELSE Append(str(n \div 10), Digit(n % 10))

\* range(start, stop, step) as the sequence of its elements.
range(start, stop, step) ==
    [i \in 1..((stop - start + step - 1) \div step) |-> start + (i - 1) * step]

\* ------------------------------------------------------------------- state

VARIABLES
    ctor,     \* the arguments of BlockVisitPlots(date, **kwargs)
    table,    \* the database's daily BlockCount: residue of the day -> count
    phase,    \* "new": not constructed; "live": constructed; "failed": __init__ raised
    inst,     \* the instance's fields self.date, self.kwargs, self.df
    queries,  \* the block_visits queries issued so far, in order, and whether each raised
    out,      \* what the last view-method call did
    ncalls    \* the number of view-method calls made, saturating at MaxCalls

vars == <<ctor, table, phase, inst, queries, out, ncalls>>

NoInst == [date |-> -1, kwargs |-> <<>>, df |-> [start |-> 0, end |-> -1, data |-> <<>>]]
NoCall == [func |-> "none"]
NoOut == [method |-> "none", arg |-> 0, raises |-> FALSE, status |-> "none", call |-> NoCall]

\* Keyword arguments a caller may hand to the constructor. "values" is also a
\* keyword of the DialPlot calls and "y_range" of the bar plot calls.
NoKwargs == [k \in {} |-> 0]
KwargsChoices ==
    {NoKwargs, [plot_width |-> 200], [values |-> 1, y_range |-> 1]}

Tables == [0..(TablePeriod - 1) -> {0, MaxCount}]
\* The tables of SpecRange: one busy night in every TablePeriod.
OneTable == [r \in 0..(TablePeriod - 1) |-> IF r = 0 THEN MaxCount ELSE 1]

\* ---------------------- collaborators (app.plot.queries, app.plot.util)

\* DateRangeQueries(start, end, db.engine).block_visits(): the table's rows with
\* start <= Date <= end, one row per day.
block_visits(start, end, tbl) == [start |-> start, end |-> end, data |-> tbl]

\* The BlockCount of the dataframe's row for day d; a day without a row counts 0.
BlockCount(df, d) ==
    IF df.start <= d /\ d <= df.end THEN df.data[d % TablePeriod] ELSE 0

RECURSIVE SumCounts(_, _, _)
\* The sum of BlockCount over the rows with from <= Date <= to.
SumCounts(df, from, to) ==
    IF from > to THEN 0 ELSE BlockCount(df, from) + SumCounts(df, from + 1, to)

\* util.value_last_night: the value for the date preceding `date`.
value_last_night(df, date) == BlockCount(df, date - 1)

\* util.value_last_week: the sum of the values of the seven days before `date`.
value_last_week(df, date) == SumCounts(df, date - 7, date - 1)

\* util.day_range: <<start_date, end_date>> of the `days` days leading to but
\* excluding `date`; end_date is exclusive.
day_range(date, days) == <<date - days, date>>

\* The months since year 0 of the month containing day d.
MonthIndex(d) == Civil(d).year * 12 + Civil(d).month - 1

\* The first day of the month with the given index.
MonthStart(idx) == DateOf(idx \div 12, (idx % 12) + 1, 1)

\* util.month_range: <<start_date, end_date>> of the `months` months leading to
\* but excluding the month containing `date`; end_date is exclusive.
month_range(date, months) ==
    <<MonthStart(MonthIndex(date) - months), MonthStart(MonthIndex(date))>>

\* The days a bar plot shows for the window start_date, end_date.
BarDays(start_date, end_date) == start_date..(end_date - 1)

\* ------------------------------------------------------- BlockVisitPlots

\* start and end of __init__
QueryStart(date) == date - QueryDaysBefore
QueryEnd(date) == date + QueryDaysAfter

\* last_night_plot showing the night of self.date itself.
last_night_plot_of_date(self) ==
    LET block_visits_ == value_last_night(self.df, self.date + 1)
    IN  [func |-> "DialPlot",
         args |-> [values |-> <<block_visits_>>,
                   label_values |-> range(0, 13, 1),
                   dial_color_func |-> "#7f7f7f",
                   display_values |-> <<str(block_visits_)>>],
         kwargs |-> self.kwargs]

\* The DialPlot(...) call of last_night_plot.
last_night_plot(self) ==
    LET block_visits_ == value_last_night(self.df, self.date)
    IN  [func |-> "DialPlot",
         args |-> [values |-> <<block_visits_>>,
                   label_values |-> range(0, 13, 1),
                   dial_color_func |-> "#7f7f7f",
                   display_values |-> <<str(block_visits_)>>],
         kwargs |-> self.kwargs]

\* week_to_date_plot summing the seven days up to and including self.date.
week_to_date_plot_inclusive(self) ==
    LET block_visits_ == value_last_week(self.df, self.date + 1)
    IN  [func |-> "DialPlot",
         args |-> [values |-> <<block_visits_>>,
                   label_values |-> range(0, 71, 10),
                   dial_color_func |-> "#7f7f7f",
                   display_values |-> <<str(block_visits_)>>],
         kwargs |-> self.kwargs]

\* The DialPlot(...) call of week_to_date_plot.
week_to_date_plot(self) ==
    LET block_visits_ == value_last_week(self.df, self.date)
    IN  [func |-> "DialPlot",
         args |-> [values |-> <<block_visits_>>,
                   label_values |-> range(0, 71, 10),
                   dial_color_func |-> "#7f7f7f",
                   display_values |-> <<str(block_visits_)>>],
         kwargs |-> self.kwargs]

\* daily_plot whose window ends with self.date.
daily_plot_inclusive(self, days) ==
    LET r == day_range(self.date + 1, days)
    IN  [func |-> "daily_bar_plot",
         args |-> [df |-> self.df,
                   start_date |-> r[1],
                   end_date |-> r[2],
                   date_column |-> "Date",
                   y_column |-> "BlockCount",
                   y_range |-> [start |-> 0, end |-> 30],
                   trend_func |-> [func |-> "day_running_average",
                                   ignore_missing_values |-> FALSE]],
         kwargs |-> self.kwargs]

\* daily_plot calling daily_bar_plot without **self.kwargs.
daily_plot_no_kwargs(self, days) ==
    LET r == day_range(self.date, days)
    IN  [func |-> "daily_bar_plot",
         args |-> [df |-> self.df,
                   start_date |-> r[1],
                   end_date |-> r[2],
                   date_column |-> "Date",
                   y_column |-> "BlockCount",
                   y_range |-> [start |-> 0, end |-> 30],
                   trend_func |-> [func |-> "day_running_average",
                                   ignore_missing_values |-> FALSE]],
         kwargs |-> NoKwargs]

\* The daily_bar_plot(...) call of daily_plot(days).
daily_plot(self, days) ==
    LET r == day_range(self.date, days)
    IN  [func |-> "daily_bar_plot",
         args |-> [df |-> self.df,
                   start_date |-> r[1],
                   end_date |-> r[2],
                   date_column |-> "Date",
                   y_column |-> "BlockCount",
                   y_range |-> [start |-> 0, end |-> 30],
                   trend_func |-> [func |-> "day_running_average",
                                   ignore_missing_values |-> FALSE]],
         kwargs |-> self.kwargs]

\* monthly_plot counting its months back from the day `months` months' worth of
\* 30 days before self.date instead of by calendar month.
monthly_plot_by_days(self, months) ==
    LET r == <<MonthStart(MonthIndex(self.date - 30 * months)), MonthStart(MonthIndex(self.date))>>
    IN  [func |-> "monthly_bar_plot",
         args |-> [df |-> self.df,
                   start_date |-> r[1],
                   end_date |-> r[2],
                   date_column |-> "Date",
                   month_column |-> "Month",
                   y_column |-> "BlockCount",
                   y_range |-> [start |-> 0, end |-> 300],
                   trend_func |-> [func |-> "month_running_average",
                                   ignore_missing_values |-> FALSE]],
         kwargs |-> self.kwargs]

\* The monthly_bar_plot(...) call of monthly_plot(months).
monthly_plot(self, months) ==
    LET r == month_range(self.date, months)
    IN  [func |-> "monthly_bar_plot",
         args |-> [df |-> self.df,
                   start_date |-> r[1],
                   end_date |-> r[2],
                   date_column |-> "Date",
                   month_column |-> "Month",
                   y_column |-> "BlockCount",
                   y_range |-> [start |-> 0, end |-> 300],
                   trend_func |-> [func |-> "month_running_average",
                                   ignore_missing_values |-> FALSE]],
         kwargs |-> self.kwargs]

\* f(a=..., **kwargs) raises TypeError when kwargs repeats a keyword of the call.
Collides(call) == (DOMAIN call.args) \cap (DOMAIN call.kwargs) # {}

\* What a view method does with the call it builds. `raises` is whether the
\* helper or the plot constructor raises; the method has no try/except, so the
\* exception leaves the method and no plot is made.
Outcome(method, arg, call, raises) ==
    IF raises \/ Collides(call)
    THEN [method |-> method, arg |-> arg, raises |-> raises, status |-> "raised", call |-> NoCall]
    ELSE [method |-> method, arg |-> arg, raises |-> raises, status |-> "returned", call |-> call]

Bump(n) == IF n < MaxCalls THEN n + 1 ELSE n

\* __init__ catching the query's exception and leaving self.df unset.
Construct_swallow ==
    /\ phase = "new"
    /\ \E fails \in BOOLEAN :
        LET date == ctor.date
            start == QueryStart(date)
            end == QueryEnd(date)
        IN  /\ queries' = Append(queries, [start |-> start, end |-> end, raised |-> fails])
            /\ phase' = "live"
            /\ inst' = [date |-> date, kwargs |-> ctor.kwargs,
                        df |-> IF fails THEN NoInst.df ELSE block_visits(start, end, table)]
    /\ UNCHANGED <<ctor, table, out, ncalls>>

\* BlockVisitPlots(date, **kwargs). `fails` is whether the query raises.
Construct ==
    /\ phase = "new"
    /\ \E fails \in BOOLEAN :
        LET date == ctor.date
            start == QueryStart(date)
            end == QueryEnd(date)
        IN  /\ queries' = Append(queries, [start |-> start, end |-> end, raised |-> fails])
            /\ IF fails
               THEN phase' = "failed" /\ inst' = NoInst
               ELSE /\ phase' = "live"
                    /\ inst' = [date |-> date, kwargs |-> ctor.kwargs,
                                df |-> block_visits(start, end, table)]
    /\ UNCHANGED <<ctor, table, out, ncalls>>

\* last_night_plot fetching the dataframe again before it reads it.
LastNightPlot_requery ==
    /\ phase = "live"
    /\ \E raises \in BOOLEAN :
        out' = Outcome("last_night_plot", 0, last_night_plot(inst), raises)
    /\ queries' = Append(queries, [start |-> QueryStart(inst.date), end |-> QueryEnd(inst.date),
                                   raised |-> FALSE])
    /\ ncalls' = Bump(ncalls)
    /\ UNCHANGED <<ctor, table, phase, inst>>

\* last_night_plot()
LastNightPlot ==
    /\ phase = "live"
    /\ \E raises \in BOOLEAN :
        out' = Outcome("last_night_plot", 0, last_night_plot(inst), raises)
    /\ ncalls' = Bump(ncalls)
    /\ UNCHANGED <<ctor, table, phase, inst, queries>>

\* week_to_date_plot moving self.date back by the week it has shown.
WeekToDatePlot_moves_date ==
    /\ phase = "live"
    /\ \E raises \in BOOLEAN :
        out' = Outcome("week_to_date_plot", 0, week_to_date_plot(inst), raises)
    /\ inst' = [inst EXCEPT !.date = @ - 7]
    /\ ncalls' = Bump(ncalls)
    /\ UNCHANGED <<ctor, table, phase, queries>>

\* week_to_date_plot()
WeekToDatePlot ==
    /\ phase = "live"
    /\ \E raises \in BOOLEAN :
        out' = Outcome("week_to_date_plot", 0, week_to_date_plot(inst), raises)
    /\ ncalls' = Bump(ncalls)
    /\ UNCHANGED <<ctor, table, phase, inst, queries>>

\* daily_plot(days)
DailyPlot ==
    /\ phase = "live"
    /\ \E days \in 1..MaxDays, raises \in BOOLEAN :
        out' = Outcome("daily_plot", days, daily_plot(inst, days), raises)
    /\ ncalls' = Bump(ncalls)
    /\ UNCHANGED <<ctor, table, phase, inst, queries>>

\* monthly_plot(months)
MonthlyPlot ==
    /\ phase = "live"
    /\ \E months \in 1..MaxMonths, raises \in BOOLEAN :
        out' = Outcome("monthly_plot", months, monthly_plot(inst, months), raises)
    /\ ncalls' = Bump(ncalls)
    /\ UNCHANGED <<ctor, table, phase, inst, queries>>

Start ==
    /\ phase = "new"
    /\ inst = NoInst
    /\ queries = <<>>
    /\ out = NoOut
    /\ ncalls = 0

Init ==
    /\ ctor \in [date : FirstDate..(FirstDate + NumMainDates - 1), kwargs : KwargsChoices]
    /\ table \in Tables
    /\ Start

InitRange ==
    /\ ctor \in [date : FirstDate..(FirstDate + NumDates - 1), kwargs : {NoKwargs}]
    /\ table = OneTable
    /\ Start

Next ==
    \/ Construct
    \/ LastNightPlot
    \/ WeekToDatePlot
    \/ DailyPlot
    \/ MonthlyPlot

Spec == Init /\ [][Next]_vars

SpecRange == InitRange /\ [][Next]_vars

\* ------------------------------------------------------------------ claims

\* The value of one decimal digit character, -1 for any other string.
DigitValue(c) ==
    CASE c = "0" -> 0 [] c = "1" -> 1 [] c = "2" -> 2 [] c = "3" -> 3 [] c = "4" -> 4
      [] c = "5" -> 5 [] c = "6" -> 6 [] c = "7" -> 7 [] c = "8" -> 8 [] c = "9" -> 9
      [] OTHER -> -1

RECURSIVE DecimalValue(_)
\* The number a sequence of digit characters denotes.
DecimalValue(s) ==
    IF Len(s) = 0 THEN 0
    ELSE 10 * DecimalValue(SubSeq(s, 1, Len(s) - 1)) + DigitValue(s[Len(s)])

\* s is the decimal string of v: digits only, no leading zero, denoting v.
IsDecimalOf(s, v) ==
    /\ Len(s) >= 1
    /\ \A i \in 1..Len(s) : DigitValue(s[i]) >= 0
    /\ Len(s) > 1 => s[1] # "0"
    /\ DecimalValue(s) = v

\* The table's BlockCount of day d.
CountOn(d) == table[d % TablePeriod]

RECURSIVE SumOn(_)
\* The table's BlockCount summed over a set of days.
SumOn(days) ==
    IF days = {} THEN 0
    ELSE LET d == CHOOSE x \in days : TRUE IN CountOn(d) + SumOn(days \ {d})

\* The instance the constructor arguments and the one fetch determine.
Constructed ==
    [date |-> ctor.date, kwargs |-> ctor.kwargs,
     df |-> [start |-> ctor.date - 300, end |-> ctor.date + 150, data |-> table]]

Returned(method) == out.method = method /\ out.status = "returned"

\* C1: construction issues exactly one block_visits query, for date - 300 days
\* to date + 150 days, and however many view methods are called afterwards the
\* number of queries issued stays one.
C1_SingleQuery ==
    /\ phase = "new" => queries = <<>>
    /\ phase # "new" =>
        /\ Len(queries) = 1
        /\ queries[1].start = ctor.date - 300
        /\ queries[1].end = ctor.date + 150

C1_Witness ==
    /\ phase = "live"
    /\ ncalls = MaxCalls
    /\ out.method = "monthly_plot"
    /\ Len(queries) = 1

\* The call a view method makes on instance self.
ViewCall(self, method, arg) ==
    CASE method = "last_night_plot" -> last_night_plot(self)
      [] method = "week_to_date_plot" -> week_to_date_plot(self)
      [] method = "daily_plot" -> daily_plot(self, arg)
      [] method = "monthly_plot" -> monthly_plot(self, arg)

\* C2: a step of a live instance leaves date, df and kwargs as they are, and
\* what the view method called in that step did is what it does on the instance
\* as constructed, whatever was called before.
C2_ViewsReadOnly ==
    [][phase = "live" =>
        /\ inst' = inst
        /\ out' = Outcome(out'.method, out'.arg,
                          ViewCall(Constructed, out'.method, out'.arg), out'.raises)]_vars

C2_Witness ==
    /\ phase = "live"
    /\ ncalls = MaxCalls
    /\ Returned("last_night_plot")
    /\ inst = Constructed

\* C3: last_night_plot hands the dial exactly one value, the BlockCount of the
\* day before self.date, unclamped, and exactly one display string, the decimal
\* string of that value.
C3_LastNight ==
    Returned("last_night_plot") =>
        /\ out.call.func = "DialPlot"
        /\ out.call.args.values = <<CountOn(ctor.date - 1)>>
        /\ Len(out.call.args.display_values) = 1
        /\ IsDecimalOf(out.call.args.display_values[1], CountOn(ctor.date - 1))

C3_Witness ==
    /\ Returned("last_night_plot")
    /\ out.call.args.values[1] > 12
    /\ CountOn(ctor.date) # CountOn(ctor.date - 1)

\* C4: week_to_date_plot hands the dial the sum of the BlockCount of the days
\* date - 7 .. date - 1, which is the sum of what last_night_plot shows for the
\* dates date, date - 1, ..., date - 6 on the same dataframe, and its display
\* string denotes that number.
C4_WeekToDate ==
    Returned("week_to_date_plot") =>
        LET v == out.call.args.values[1]
            nights == [k \in 0..6 |->
                        last_night_plot([inst EXCEPT !.date = ctor.date - k]).args.values[1]]
        IN  /\ out.call.func = "DialPlot"
            /\ Len(out.call.args.values) = 1
            /\ v = SumOn((ctor.date - 7)..(ctor.date - 1))
            /\ v = nights[0] + nights[1] + nights[2] + nights[3] + nights[4] + nights[5] + nights[6]
            /\ Len(out.call.args.display_values) = 1
            /\ IsDecimalOf(out.call.args.display_values[1], v)

C4_Witness ==
    /\ Returned("week_to_date_plot")
    /\ out.call.args.values[1] > 70
    /\ CountOn(ctor.date) # CountOn(ctor.date - 7)

\* C5: the window daily_plot(days) hands to the bar plot is exactly the `days`
\* consecutive days date - days .. date - 1; self.date and later days are not in it.
C5_DailyWindow ==
    Returned("daily_plot") =>
        LET shown == BarDays(out.call.args.start_date, out.call.args.end_date)
        IN  /\ out.call.func = "daily_bar_plot"
            /\ shown = (ctor.date - out.arg)..(ctor.date - 1)
            /\ Cardinality(shown) = out.arg
            /\ \A d \in shown : d < ctor.date

C5_Witness ==
    /\ Returned("daily_plot")
    /\ out.arg = MaxDays
    /\ Civil(out.call.args.start_date).year < Civil(ctor.date).year

\* C6: the window monthly_plot(months) hands to the bar plot is exactly `months`
\* whole calendar months, the last being the month before the one containing
\* self.date, across year boundaries; no day of self.date's month is in it.
C6_MonthlyWindow ==
    Returned("monthly_plot") =>
        LET s == out.call.args.start_date
            e == out.call.args.end_date
            this == Civil(ctor.date).year * 12 + Civil(ctor.date).month
            month(d) == Civil(d).year * 12 + Civil(d).month
        IN  /\ out.call.func = "monthly_bar_plot"
            /\ s < e
            /\ month(s) = this - out.arg /\ month(s - 1) = this - out.arg - 1
            /\ month(e - 1) = this - 1 /\ month(e) = this
            /\ e <= ctor.date
            /\ \A d \in BarDays(s, e) : month(d) \in (this - out.arg)..(this - 1)

C6_Witness ==
    /\ Returned("monthly_plot")
    /\ out.arg = 13
    /\ Civil(ctor.date).month = 1
    /\ Civil(out.call.args.start_date) = [year |-> Civil(ctor.date).year - 2, month |-> 12, day |-> 1]

\* C7: every plot call a view method makes carries exactly the keyword
\* arguments given to the constructor, and goes to the method's own primitive.
C7_KwargsForwarded ==
    out.status = "returned" =>
        /\ out.call.kwargs = ctor.kwargs
        /\ out.call.func =
             (CASE out.method = "last_night_plot" -> "DialPlot"
                [] out.method = "week_to_date_plot" -> "DialPlot"
                [] out.method = "daily_plot" -> "daily_bar_plot"
                [] out.method = "monthly_plot" -> "monthly_bar_plot")

C7_Witness ==
    /\ Returned("daily_plot")
    /\ ncalls = MaxCalls
    /\ out.call.kwargs = [plot_width |-> 200]

\* C8: a query that raises leaves no instance, so no view method runs without
\* fetched data; a failure inside a view method leaves the method as an
\* exception, with no plot made, and date, df and kwargs as constructed.
C8_NoRecovery ==
    /\ (queries # <<>> /\ queries[1].raised) => phase = "failed" /\ inst = NoInst /\ out = NoOut
    /\ out # NoOut => phase = "live" /\ inst.df = Constructed.df
    /\ out.raises => out.status = "raised" /\ out.call = NoCall
    /\ out.status = "raised" => inst = Constructed

C8_Witness ==
    /\ out.raises
    /\ out.status = "raised"
    /\ ncalls = MaxCalls
    /\ inst = Constructed

\* C9: for 1 <= months <= 9 the window of monthly_plot(months) lies inside the
\* fetched range date - 300 days .. date + 150 days.
C9_MonthlyWindowFetched ==
    (Returned("monthly_plot") /\ out.arg <= 9) =>
        /\ out.call.args.start_date >= ctor.date - 300
        /\ out.call.args.end_date <= ctor.date + 150

====
